---- MODULE Spec2Model ----
(***************************************************************************)
(* Model of commissaire-service:                                           *)
(*   - CommissaireService._wrap_on_message / on_message / request          *)
(*     (src/src/commissaire_service/service/__init__.py)                   *)
(*   - ServiceManager._start_process / run (same file)                     *)
(*                                                                         *)
(* Python values are encoded as follows.  A dict is a TLA+ function whose  *)
(* DOMAIN is the dict's key set, so `'k' in d.keys()` is "k" \in DOMAIN d  *)
(* and d['k'] on a missing key is a KeyError.  A message body is wrapped   *)
(* as [type, value] so that isinstance(body, dict) can be decided.  A      *)
(* routing key is the sequence of its dot-separated segments.              *)
(***************************************************************************)
EXTENDS Integers, Sequences, FiniteSets, TLC

VARIABLES
    bus,        \* request messages published and routed to the service queue
    replyQ,     \* existing point-to-point queues: name -> pending payloads
    wk,         \* the service worker: position in _wrap_on_message + last delivery
    callers,    \* each caller of request(): position, id, result
    dispatched, \* history: reply queue name -> outcome of the dispatch replied there
    nextId,     \* source of fresh identifiers (uuid4)
    asyncs,     \* ServiceManager._asyncs
    mgr,        \* ServiceManager.run: position, iterator index, counters
    origin,     \* history: reply queue name -> ids of the requests replied there
    nested,     \* the request() a running handler has issued
    sto,        \* StorageService: construction, routing table, stored models
    rec         \* service queue and workers under the supervisor

vars == <<bus, replyQ, wk, dispatched, callers, nextId, asyncs, mgr,
          origin, nested, sto, rec>>
mgrVars == <<asyncs, mgr>>

----------------------------------------------------------------------------
(* Bounds *)

NumCallers == 1          \* processes that each issue one request()
ProcessCount == 3        \* process_count given to ServiceManager
MaxCompletions == 3      \* worker tasks that finish during the run
MaxMessages == 1         \* messages published to the service queue
NumClients == 2          \* services with requests outstanding at once
MaxNested == 2           \* requests issued from inside handlers
MaxEntries == 2          \* entries of the configured storage_handlers list

----------------------------------------------------------------------------
(* Python values *)

None == [py |-> "None"]

Callers == 1..NumCallers
\* Further services calling request() at the same time.
Clients == (NumCallers + 1)..(NumCallers + NumClients)

\* Handlers the service class defines (those of StorageService used here):
\* on_save exists, on_nope does not.
Handlers == {"save", "get", "delete"}
Methods == {"save", "nope"}

\* qkwargs of the service: a topic pattern and a single-word key.
QueueBindings == {<<"storage", "*">>, <<"notify">>}

RoutingKeys == {<<"storage", "save">>, <<"storage", "nope">>,
                <<"other", "save">>, <<"notify">>}

\* Topic-exchange match: "*" stands for exactly one word.
TopicMatch(pattern, rk) ==
    /\ Len(pattern) = Len(rk)
    /\ \A i \in 1..Len(rk) : pattern[i] = "*" \/ pattern[i] = rk[i]

Routed(rk) == \E p \in QueueBindings : TopicMatch(p, rk)

\* As ResponseQueueName, with one queue for all requests.
ResponseQueueShared(id) == [prefix |-> "response", id |-> 0]

\* 'response-{}'.format(id)
ResponseQueueName(id) == [prefix |-> "response", id |-> id]
NoReplyTo == [prefix |-> "", id |-> 0]

DictBody(d) == [type |-> "dict", value |-> d]
StrBody == [type |-> "str", value |-> [text |-> "ping"]]

\* Bodies an arbitrary publisher can send: every subset of the keys
\* id / method / params, every method name, or a non-dict body.  Such a
\* publisher's id is 0; request() draws its ids from 1 upwards.
ExternalBodies ==
    {DictBody([k \in K |-> IF k = "id" THEN 0
                           ELSE IF k = "method" THEN m ELSE "dict"]) :
        K \in SUBSET {"id", "method", "params"}, m \in Methods}
    \cup {StrBody}

ExternalMessages ==
    {[body |-> b, routing_key |-> rk, reply_to |-> rt] :
        b \in ExternalBodies,
        rk \in {r \in RoutingKeys : Routed(r)},
        rt \in {NoReplyTo}}

\* Values and exceptions a handler invocation can end with.
HandlerReturns == {None, [name |-> "model"]}
HandlerRaises == {[type |-> "AttributeError", text |-> "no attribute x"],
                  [type |-> "ValueError", text |-> "bad value"]}
HandlerOutcomes ==
    {[kind |-> "return", value |-> v, error |-> None] : v \in HandlerReturns}
    \cup {[kind |-> "raise", value |-> None, error |-> e] : e \in HandlerRaises}

Raise(type, text) ==
    [kind |-> "raise", value |-> None, error |-> [type |-> type, text |-> text]]

----------------------------------------------------------------------------
(* Queues *)

\* connection.SimpleQueue(name) declares the queue when it does not exist.
Declare(q, name) ==
    IF name \in DOMAIN q THEN q
    ELSE [n \in DOMAIN q \cup {name} |-> IF n = name THEN <<>> ELSE q[n]]

\* SimpleQueue(name).put(payload)
Put(q, name, payload) ==
    LET d == Declare(q, name)
    IN [d EXCEPT ![name] = Append(@, payload)]

\* The consuming side's close(): the auto-delete queue goes away.
Close(q, name) == [n \in DOMAIN q \ {name} |-> q[n]]

----------------------------------------------------------------------------
(* CommissaireService._wrap_on_message *)

\* message.delivery_info['routing_key'].rsplit('.', 1)
RSplit1(rk) ==
    IF Len(rk) >= 2 THEN <<SubSeq(rk, 1, Len(rk) - 1), rk[Len(rk)]>>
    ELSE <<rk>>

\* isinstance(body, dict) and 'method' in body.keys() and
\* body.get('method') == expected_method
IsRpcCall(m) ==
    /\ m.body.type = "dict"
    /\ "method" \in DOMAIN m.body.value
    /\ m.body.value.method = RSplit1(m.routing_key)[2]

JsonrpcErrorCode(error) ==
    IF error.type = "AttributeError" THEN -32601 ELSE -32600

\* The dict built in the except branch; body['id'] must exist.
ErrorResult(d, error) ==
    [jsonrpc |-> "2.0",
     id |-> d.id,
     error |-> [code |-> JsonrpcErrorCode(error),
                message |-> error.text,
                data |-> [exception |-> [class |-> error.type]]]]

\* response_queue.put({'result': result})
ReplyPayload(result) == [result |-> result]

\* The worker's position and what the current delivery did so far:
\* acks = calls of message.ack(), invoked = calls of an on_<method> handler,
\* caught = the exception caught by the except branch, exc = the exception
\* that left _wrap_on_message.
Delivery(pc, m, acks, invoked, outcome, result, caught, exc) ==
    [pc |-> pc, msg |-> m, acks |-> acks, invoked |-> invoked,
     outcome |-> outcome, result |-> result, caught |-> caught, exc |-> exc]

Origins(h, name) == IF name \in DOMAIN h THEN h[name] ELSE {}

\* History: the outcome of the dispatch whose reply went to queue `name`.
Record(h, name, outcome) ==
    [n \in DOMAIN h \cup {name} |-> IF n = name THEN outcome ELSE h[n]]

NoMessage == [body |-> StrBody, routing_key |-> <<>>, reply_to |-> NoReplyTo]
Idle == Delivery("idle", NoMessage, 0, 0, "none", None, None, "")

\* As OnMessage, with a reply put on the message's reply_to.
OnMessageReplying(m) ==
    /\ wk' = Delivery("done", m, 1, 0, "on_message", None, None, "")
    /\ replyQ' = Put(replyQ, m.reply_to, ReplyPayload(None))
    /\ UNCHANGED <<dispatched, origin>>

\* on_message: log and acknowledge.
OnMessage(m) ==
    /\ wk' = Delivery("done", m, 1, 0, "on_message", None, None, "")
    /\ UNCHANGED <<replyQ, dispatched, origin>>

\* Lines 217-239: build the result, log it, ack.
WrapOnMessageFinish(m, invoked, out) ==
    LET d == m.body.value
    IN IF "id" \notin DOMAIN d
       THEN \* body['id'] raises KeyError, in the except branch or in the
            \* debug line; either way before message.ack()
            /\ wk' = Delivery("crashed", m, 0, invoked, "raised", None, out.error, "KeyError")
            /\ UNCHANGED <<replyQ, dispatched, origin>>
       ELSE LET result == IF out.kind = "raise"
                          THEN ErrorResult(d, out.error)
                          ELSE out.value
                outcome == IF out.kind = "raise" THEN "error" ELSE "success"
            IN /\ wk' = Delivery("acked", m, 1, invoked, outcome, result, out.error, "")
               /\ UNCHANGED <<replyQ, dispatched, origin>>

\* Lines 201-216: route, resolve the handler, enter it.
WrapOnMessageEnter(m) ==
    IF Len(RSplit1(m.routing_key)) < 2
    THEN /\ wk' = Delivery("crashed", m, 0, 0, "raised", None, None, "IndexError")
         /\ UNCHANGED <<replyQ, dispatched, origin>>
    ELSE IF ~IsRpcCall(m)
    THEN OnMessage(m)
    ELSE IF m.body.value.method \notin Handlers
    THEN WrapOnMessageFinish(m, 0,
             Raise("AttributeError", "object has no attribute on_method"))
    ELSE IF "params" \notin DOMAIN m.body.value
    THEN WrapOnMessageFinish(m, 0, Raise("KeyError", "params"))
    ELSE /\ wk' = Delivery("handler", m, 0, 1, "none", None, None, "")
         /\ UNCHANGED <<replyQ, dispatched, origin>>

FinalSegment(rk) == rk[Len(rk)]

\* A request() a handler has issued: its position, id and routing key, and
\* the number of such requests issued so far.
NoNested(issued) ==
    [pc |-> "idle", id |-> 0, routing_key |-> <<>>, issued |-> issued]

\* As CallbackFree, but the consumer also delivers while a handler waits in
\* request().
CallbackFreeOrWaiting == wk.pc = "idle" \/ nested.pc = "waiting"

\* The consumer calls _wrap_on_message from its own drain loop: the next
\* call starts when the one before has returned.  request() waits on the
\* service's first connection, the consumer runs on a clone of it.
CallbackFree == wk.pc = "idle"

\* The consumer hands the next queued request message to the callback.
DeliverRequest ==
    /\ CallbackFree
    /\ bus # <<>>
    /\ bus' = Tail(bus)
    /\ WrapOnMessageEnter(Head(bus))
    /\ UNCHANGED <<callers, nextId, mgrVars, nested, sto, rec>>

\* A message from any other publisher is delivered.
DeliverExternal ==
    /\ CallbackFree
    /\ \E m \in ExternalMessages : WrapOnMessageEnter(m)
    /\ UNCHANGED <<bus, callers, nextId, mgrVars, nested, sto, rec>>

\* The on_<method> handler returns or raises.
HandlerDone ==
    /\ wk.pc = "handler"
    /\ nested.pc # "waiting"
    /\ \E out \in HandlerOutcomes : WrapOnMessageFinish(wk.msg, wk.invoked, out)
    /\ nested' = NoNested(nested.issued)
    /\ UNCHANGED <<bus, callers, nextId, mgrVars, sto, rec>>

\* The running handler calls self.request(): lines 298-333.
NestedRequest ==
    /\ wk.pc = "handler"
    /\ nested.pc = "idle"
    /\ nested.issued < MaxNested
    /\ \E rk \in RoutingKeys :
          LET id == nextId
              name == ResponseQueueName(id)
              msg == [body |-> DictBody([jsonrpc |-> "2.0", id |-> id,
                                         method |-> FinalSegment(rk),
                                         params |-> "dict"]),
                      routing_key |-> rk,
                      reply_to |-> name]
          IN /\ nextId' = nextId + 1
             /\ replyQ' = Declare(replyQ, name)
             /\ bus' = IF Routed(rk) THEN Append(bus, msg) ELSE bus
             /\ nested' = [pc |-> "waiting", id |-> id, routing_key |-> rk,
                           issued |-> nested.issued + 1]
    /\ UNCHANGED <<wk, dispatched, origin, callers, mgrVars, sto, rec>>

\* The service bound to the routing key of the handler's request replies.
PeerReply ==
    /\ nested.pc = "waiting"
    /\ ~Routed(nested.routing_key)
    /\ replyQ[ResponseQueueName(nested.id)] = <<>>
    /\ replyQ' = Put(replyQ, ResponseQueueName(nested.id),
                     ReplyPayload([name |-> "model"]))
    /\ UNCHANGED <<bus, wk, dispatched, origin, callers, nextId, mgrVars,
                   nested, sto, rec>>

\* Lines 335-348 of the handler's request(): the reply arrived.
NestedReceive ==
    LET name == ResponseQueueName(nested.id)
    IN /\ nested.pc = "waiting"
       /\ replyQ[name] # <<>>
       /\ replyQ' = Close(replyQ, name)
       /\ nested' = [nested EXCEPT !.pc = "returned"]
       /\ UNCHANGED <<bus, wk, dispatched, origin, callers, nextId, mgrVars,
                      sto, rec>>

\* Line 335 of the handler's request(): get() raises Empty after 3 seconds.
NestedTimeout ==
    LET name == ResponseQueueName(nested.id)
    IN /\ nested.pc = "waiting"
       /\ replyQ[name] = <<>>
       /\ nested' = [nested EXCEPT !.pc = "raised"]
       /\ UNCHANGED <<bus, replyQ, wk, dispatched, origin, callers, nextId,
                      mgrVars, sto, rec>>

\* Lines 240-248: after the ack, the reply is put on the reply_to queue when
\* the message names one.
WrapOnMessageReply ==
    /\ wk.pc = "acked"
    /\ wk' = [wk EXCEPT !.pc = "done"]
    /\ LET m == wk.msg
       IN IF m.reply_to # NoReplyTo
          THEN /\ replyQ' = Put(replyQ, m.reply_to, ReplyPayload(wk.result))
               /\ dispatched' = Record(dispatched, m.reply_to, wk.outcome)
               /\ origin' = Record(origin, m.reply_to,
                      Origins(origin, m.reply_to) \cup {m.body.value.id})
          ELSE UNCHANGED <<replyQ, dispatched, origin>>
    /\ UNCHANGED <<bus, callers, nextId, mgrVars, nested, sto, rec>>

\* Lines 252-254: the callback logs the ack state and returns to the
\* consume loop.
WrapOnMessageReturn ==
    /\ wk.pc = "done"
    /\ wk' = Idle
    /\ UNCHANGED <<bus, replyQ, dispatched, origin, callers, nextId, mgrVars, nested, sto, rec>>

----------------------------------------------------------------------------
(* CommissaireService.request *)

IdleCaller == [pc |-> "idle", id |-> 0, routing_key |-> <<>>, method |-> "",
               payload |-> None, acked |-> FALSE, warned |-> FALSE]

\* create_id: uuid4 never repeats.
CreateId == nextId

\* Lines 298-333: fresh id, reply queue, publish with reply_to.
Request(c) ==
    /\ callers[c].pc = "idle"
    /\ \E rk \in RoutingKeys, method \in Methods :
          LET id == CreateId
              name == ResponseQueueName(id)
              msg == [body |-> DictBody([jsonrpc |-> "2.0", id |-> id,
                                         method |-> method, params |-> "dict"]),
                      routing_key |-> rk,
                      reply_to |-> name]
          IN /\ nextId' = nextId + 1
             /\ replyQ' = Declare(replyQ, name)
             /\ bus' = IF Routed(rk) THEN Append(bus, msg) ELSE bus
             /\ callers' = [callers EXCEPT ![c] =
                    [@ EXCEPT !.pc = "waiting", !.id = id,
                              !.routing_key = rk, !.method = method]]
    /\ UNCHANGED <<wk, dispatched, origin, mgrVars, nested, sto, rec>>

\* As RequestReceive, but the reply queue is left open.
RequestReceiveNoClose(c) ==
    LET name == ResponseQueueName(callers[c].id)
    IN /\ callers[c].pc = "waiting"
       /\ name \in DOMAIN replyQ
       /\ replyQ[name] # <<>>
       /\ callers' = [callers EXCEPT ![c] =
              [@ EXCEPT !.pc = "returned", !.payload = Head(replyQ[name]),
                        !.acked = TRUE]]
       /\ replyQ' = [replyQ EXCEPT ![name] = Tail(@)]
       /\ UNCHANGED <<bus, wk, dispatched, origin, nextId, mgrVars, nested, sto, rec>>

\* Lines 335-348 when get() returns a reply.
RequestReceive(c) ==
    LET name == ResponseQueueName(callers[c].id)
    IN /\ callers[c].pc = "waiting"
       /\ name \in DOMAIN replyQ
       /\ replyQ[name] # <<>>
       /\ LET payload == Head(replyQ[name])
          IN callers' = [callers EXCEPT ![c] =
                 [@ EXCEPT !.pc = "returned", !.payload = payload,
                           !.acked = TRUE,
                           !.warned = ("error" \in DOMAIN payload)]]
       /\ replyQ' = Close(replyQ, name)
       /\ UNCHANGED <<bus, wk, dispatched, origin, nextId, mgrVars, nested, sto, rec>>

\* Line 335 when get(block=True, timeout=3) raises Empty: nothing after it runs.
RequestTimeout(c) ==
    LET name == ResponseQueueName(callers[c].id)
    IN /\ callers[c].pc = "waiting"
       /\ name \in DOMAIN replyQ
       /\ replyQ[name] = <<>>
       /\ callers' = [callers EXCEPT ![c] = [@ EXCEPT !.pc = "raised"]]
       /\ UNCHANGED <<bus, replyQ, wk, dispatched, origin, nextId, mgrVars, nested, sto, rec>>

----------------------------------------------------------------------------
(* ServiceManager *)

\* As StartProcess, but the new task is not tracked.
StartProcessUntracked(a, id) == a

\* self._asyncs.append(self._pool.apply_async(run_service, ...))
StartProcess(a, id) == Append(a, [id |-> id, ready |-> FALSE])

\* self._asyncs.index(process_result): first position holding an equal element
Index(a, x) == CHOOSE k \in 1..Len(a) : a[k] = x /\ \A j \in 1..(k - 1) : a[j] # x

\* As Pop, but the entry at the front of the list is dropped.
PopFront(a, idx) == Tail(a)

\* self._asyncs.pop(idx)
Pop(a, idx) == SubSeq(a, 1, idx - 1) \o SubSeq(a, idx + 1, Len(a))

ReadyIds(a) == {a[k].id : k \in {j \in 1..Len(a) : a[j].ready}}

\* for x in range(0, self._process_count): self._start_process()
RunLaunch ==
    /\ mgr.pc = "launch"
    /\ mgr.x < ProcessCount
    /\ asyncs' = StartProcess(asyncs, mgr.launches + 1)
    /\ mgr' = [mgr EXCEPT !.x = @ + 1, !.launches = @ + 1]
    /\ UNCHANGED <<bus, replyQ, wk, dispatched, callers, nextId,
                 origin, nested, sto, rec>>

\* The for loop over self._asyncs starts: a list iterator at index 0.
RunBeginPass ==
    /\ \/ mgr.pc = "launch" /\ mgr.x = ProcessCount
       \/ mgr.pc = "sleep"
    /\ mgr' = [mgr EXCEPT !.pc = "poll", !.i = 0, !.startReady = ReadyIds(asyncs)]
    /\ UNCHANGED <<asyncs, bus, replyQ, wk, dispatched, callers, nextId,
                 origin, nested, sto, rec>>

\* One iteration of the for loop: the iterator yields self._asyncs[i] of the
\* list as it is now, and advances.
RunPollStep ==
    /\ mgr.pc = "poll"
    /\ mgr.i < Len(asyncs)
    /\ LET process_result == asyncs[mgr.i + 1]
       IN IF process_result.ready
          THEN /\ asyncs' = StartProcess(Pop(asyncs, Index(asyncs, process_result)),
                                         mgr.launches + 1)
               /\ mgr' = [mgr EXCEPT !.i = @ + 1, !.launches = @ + 1,
                                     !.replacements = @ + 1]
          ELSE /\ mgr' = [mgr EXCEPT !.i = @ + 1]
               /\ UNCHANGED asyncs
    /\ UNCHANGED <<bus, replyQ, wk, dispatched, callers, nextId,
                 origin, nested, sto, rec>>

\* The iterator is exhausted: sleep(1).
RunEndPass ==
    /\ mgr.pc = "poll"
    /\ mgr.i >= Len(asyncs)
    /\ mgr' = [mgr EXCEPT !.pc = "sleep"]
    /\ UNCHANGED <<asyncs, bus, replyQ, wk, dispatched, callers, nextId,
                 origin, nested, sto, rec>>

\* A worker's run_service task finishes (its event loop exited or it raised).
TaskCompletes ==
    /\ mgr.replacements + Cardinality(ReadyIds(asyncs)) < MaxCompletions
    /\ \E k \in 1..Len(asyncs) :
          /\ ~asyncs[k].ready
          /\ asyncs' = [asyncs EXCEPT ![k].ready = TRUE]
    /\ UNCHANGED <<mgr, bus, replyQ, wk, dispatched, callers, nextId,
                 origin, nested, sto, rec>>

----------------------------------------------------------------------------
(* Workers of the pool consuming one service queue *)

\* Ids of the tasks the supervisor can launch during a run.
TaskIds == 1..(ProcessCount + MaxCompletions)
Messages == 1..MaxMessages

\* The service queue as the broker keeps it: queued messages, the delivery
\* each task holds unacknowledged (0: none), the acknowledged messages, the
\* messages whose dispatch ran to its end, and those handed out again.
NewQueue ==
    [queue |-> <<>>, published |-> 0, inflight |-> [t \in TaskIds |-> 0],
     acked |-> {}, completed |-> {}, redelivered |-> {}]

Alive(t) == \E k \in 1..Len(asyncs) : asyncs[k].id = t /\ ~asyncs[k].ready

\* As Receive, with the message acknowledged as it is handed over.
ReceiveAndAck(r, t, m) ==
    [r EXCEPT !.queue = Tail(@), !.inflight[t] = m, !.acked = @ \cup {m}]

\* Consumer(queue, callbacks=[self._wrap_on_message]): deliveries must be
\* acknowledged by the callback.
Receive(r, t, m) == [r EXCEPT !.queue = Tail(@), !.inflight[t] = m]

\* A publisher sends a message to the service queue.
Publish ==
    /\ rec.published < MaxMessages
    /\ rec' = [rec EXCEPT !.published = @ + 1,
                          !.queue = Append(@, rec.published + 1)]
    /\ UNCHANGED <<bus, replyQ, wk, dispatched, callers, nextId, mgrVars,
                   origin, nested, sto>>

\* The consumer of task t is handed the next message.
WorkerReceive(t) ==
    /\ Alive(t)
    /\ rec.inflight[t] = 0
    /\ rec.queue # <<>>
    /\ rec' = Receive(rec, t, Head(rec.queue))
    /\ UNCHANGED <<bus, replyQ, wk, dispatched, callers, nextId, mgrVars,
                   origin, nested, sto>>

\* _wrap_on_message of task t runs to message.ack() and returns.
WorkerFinish(t) ==
    /\ Alive(t)
    /\ rec.inflight[t] # 0
    /\ rec' = [rec EXCEPT !.inflight[t] = 0,
                          !.acked = @ \cup {rec.inflight[t]},
                          !.completed = @ \cup {rec.inflight[t]}]
    /\ UNCHANGED <<bus, replyQ, wk, dispatched, callers, nextId, mgrVars,
                   origin, nested, sto>>

\* Task t ends, between messages or in the middle of a dispatch: its task
\* reports ready, and the broker hands a delivery it had not acknowledged
\* out again.
WorkerDies(t) ==
    /\ mgr.replacements + Cardinality(ReadyIds(asyncs)) < MaxCompletions
    /\ \E k \in 1..Len(asyncs) :
          /\ asyncs[k].id = t
          /\ ~asyncs[k].ready
          /\ asyncs' = [asyncs EXCEPT ![k].ready = TRUE]
    /\ LET m == rec.inflight[t]
       IN rec' = IF m # 0 /\ m \notin rec.acked
                 THEN [rec EXCEPT !.inflight[t] = 0,
                                  !.queue = <<m>> \o @,
                                  !.redelivered = @ \cup {m}]
                 ELSE [rec EXCEPT !.inflight[t] = 0]
    /\ UNCHANGED <<mgr, bus, replyQ, wk, dispatched, callers, nextId,
                   origin, nested, sto>>

----------------------------------------------------------------------------
(* StorageService: registration of store handlers *)

\* Characters in code point order, as the sort of str compares them.
Alphabet == <<"C", "N", "X", "d", "e", "l", "o", "t", "u">>
Ord(ch) == CHOOSE i \in 1..Len(Alphabet) : Alphabet[i] = ch

\* self._model_types: name -> type, collected from commissaire.models.
ModelNames == {<<"N", "o", "d", "e">>, <<"N", "e", "t">>, <<"C", "l", "u">>}
ModelType(name) == [cls |-> name]
TypeName(mt) == mt.cls

\* fnmatch: "*" matches any run of characters, "?" exactly one character,
\* any other character itself (the patterns used hold no "[").
RECURSIVE Fnmatch(_, _)
Fnmatch(name, pat) ==
    IF pat = <<>> THEN name = <<>>
    ELSE IF Head(pat) = "*"
    THEN Fnmatch(name, Tail(pat)) \/ (name # <<>> /\ Fnmatch(Tail(name), pat))
    ELSE /\ name # <<>>
         /\ Head(pat) = "?" \/ Head(pat) = Head(name)
         /\ Fnmatch(Tail(name), Tail(pat))

\* fnmatch.filter(self._model_types.keys(), pattern)
FnmatchFilter(names, pat) == {n \in names : Fnmatch(n, pat)}

\* d.get(k): the key is read and left in place.
DictGet(d, k) == d

\* d.pop(k)
DictPop(d, k) == [x \in DOMAIN d \ {k} |-> d[x]]

\* config.pop('models', ['*'])
PopModels(d) == IF "models" \in DOMAIN d THEN d.models ELSE << <<"*">> >>

\* The loop with each pattern's matches replacing those of the patterns
\* before it.
RECURSIVE MatchPatternsLast(_, _)
MatchPatternsLast(pats, matched) ==
    IF pats = <<>> THEN [ok |-> TRUE, types |-> matched, pattern |-> <<>>]
    ELSE LET matches == FnmatchFilter(ModelNames, Head(pats))
         IN IF matches = {}
            THEN [ok |-> FALSE, types |-> matched, pattern |-> Head(pats)]
            ELSE MatchPatternsLast(Tail(pats),
                     {ModelType(n) : n \in matches})

\* The for loop over the patterns: the set of matched types, or the first
\* pattern that matches nothing.
RECURSIVE MatchPatterns(_, _)
MatchPatterns(pats, matched) ==
    IF pats = <<>> THEN [ok |-> TRUE, types |-> matched, pattern |-> <<>>]
    ELSE LET matches == FnmatchFilter(ModelNames, Head(pats))
         IN IF matches = {}
            THEN [ok |-> FALSE, types |-> matched, pattern |-> Head(pats)]
            ELSE MatchPatterns(Tail(pats),
                     matched \cup {ModelType(n) : n \in matches})

\* import_plugin(module_name, 'commissaire.storage', StoreHandlerBase)
ImportPlugin(module_name) == [cls |-> module_name]

Registered(entry, handler_type, config, types) ==
    [ok |-> TRUE, exc |-> "", entry |-> entry, handler_type |-> handler_type,
     config |-> config, types |-> types]

ConfigurationError(entry) ==
    [ok |-> FALSE, exc |-> "ConfigurationError", entry |-> entry,
     handler_type |-> None, config |-> <<>>, types |-> {}]

\* register_store_handler with a default name for an entry without one.
RegisterStoreHandlerDefaultName(entry) ==
    IF entry.type # "dict" THEN ConfigurationError(entry)
    ELSE LET module_name == IF "name" \in DOMAIN entry.value
                            THEN entry.value.name ELSE "etcd"
             noName == DictPop(entry.value, "name")
             config == DictPop(noName, "models")
             m == MatchPatterns(PopModels(noName), {})
         IN IF m.ok
            THEN Registered(DictBody(config), ImportPlugin(module_name),
                            config, m.types)
            ELSE ConfigurationError(DictBody(config))

\* register_store_handler registering what matched before a pattern without
\* a match.
RegisterStoreHandlerPartial(entry) ==
    IF entry.type # "dict" THEN ConfigurationError(entry)
    ELSE IF "name" \notin DOMAIN entry.value THEN ConfigurationError(entry)
    ELSE LET module_name == entry.value.name
             noName == DictPop(entry.value, "name")
             config == DictPop(noName, "models")
             m == MatchPatterns(PopModels(noName), {})
         IN IF m.ok \/ m.types # {}
            THEN Registered(DictBody(config), ImportPlugin(module_name),
                            config, m.types)
            ELSE ConfigurationError(DictBody(config))

\* register_store_handler up to the call of the handler manager: what is
\* handed to the manager, or the error raised, and the entry object as the
\* call leaves it.
RegisterStoreHandler(entry) ==
    IF entry.type # "dict" THEN ConfigurationError(entry)
    ELSE IF "name" \notin DOMAIN entry.value THEN ConfigurationError(entry)
    ELSE LET module_name == entry.value.name
             noName == DictPop(entry.value, "name")
             config == DictPop(noName, "models")
             m == MatchPatterns(PopModels(noName), {})
         IN IF m.ok
            THEN Registered(DictBody(config), ImportPlugin(module_name),
                            config, m.types)
            ELSE ConfigurationError(DictBody(config))

\* The orders in which *matched_types can unpack the set.
Orders(S) ==
    {f \in [1..Cardinality(S) -> S] : \A i, j \in DOMAIN f : i # j => f[i] # f[j]}

\* StoreHandlerManager.register_store_handler: the table is append-only.
ManagerRegister(table, handler_type, config, model_types) ==
    Append(table, <<handler_type, config, model_types>>)

\* StoreHandlerManager.list_store_handlers
ManagerListStoreHandlers(table) == table

\* a < b for str
RECURSIVE StrLess(_, _)
StrLess(a, b) ==
    IF b = <<>> THEN FALSE
    ELSE IF a = <<>> THEN TRUE
    ELSE IF Head(a) # Head(b) THEN Ord(Head(a)) < Ord(Head(b))
    ELSE StrLess(Tail(a), Tail(b))

\* The list of names left in the order it was built.
SortNamesAsGiven(l) == l

\* list.sort() of names
RECURSIVE SortNames(_)
SortNames(l) ==
    IF l = <<>> THEN <<>>
    ELSE LET least == CHOOSE i \in 1..Len(l) :
                          \A j \in 1..Len(l) : ~StrLess(l[j], l[i])
         IN <<l[least]>> \o SortNames(SubSeq(l, 1, least - 1)
                                      \o SubSeq(l, least + 1, Len(l)))

\* on_list_store_handlers with the result built back to front.
OnListStoreHandlersReversed(table) ==
    LET handlers == ManagerListStoreHandlers(table)
    IN [k \in 1..Len(handlers) |->
           LET h == handlers[Len(handlers) + 1 - k]
           IN [handler_type |-> TypeName(h[1]),
               config |-> h[2],
               model_types |-> SortNames([i \in 1..Len(h[3]) |->
                                             TypeName(h[3][i])])]]

\* on_list_store_handlers
OnListStoreHandlers(table) ==
    LET handlers == ManagerListStoreHandlers(table)
    IN [k \in 1..Len(handlers) |->
           [handler_type |-> TypeName(handlers[k][1]),
            config |-> handlers[k][2],
            model_types |-> SortNames([i \in 1..Len(handlers[k][3]) |->
                                          TypeName(handlers[k][3][i])])]]

Patterns == {<<"*">>, <<"N", "*">>, <<"?", "e", "t">>, <<"X", "*">>}
PatternLists ==
    {<<>>} \cup {<<p>> : p \in Patterns}
    \cup {<<p, q>> : p \in Patterns, q \in Patterns \ {<<"*">>}}

\* Entries a configuration file can hold: any keyed object with or without
\* name and models, or a value that is no object.
ConfigEntry(K, name, models) ==
    DictBody([k \in K |-> IF k = "name" THEN name
                          ELSE IF k = "models" THEN models ELSE "localhost"])

ConfigEntries ==
    {ConfigEntry({"host", "name", "models"}, "etcd", models) :
        models \in PatternLists}
    \cup {ConfigEntry({"host", "name"}, name, <<>>) : name \in {"etcd", "redis"}}
    \cup {ConfigEntry({"host", "name", "models"}, "redis", << <<"N", "*">> >>),
          ConfigEntry({"host"}, "", <<>>),
          ConfigEntry({"host", "models"}, "", << <<"*">> >>),
          StrBody}

\* C.DEFAULT_ETCD_STORE_HANDLER, used when the list is empty
DefaultStoreHandlers == << DictBody([name |-> "etcd", host |-> "localhost"]) >>

ConfigLists ==
    UNION {[1..n -> ConfigEntries] : n \in 0..MaxEntries}

\* The service before __init__ reads the handler list `given`.
NewStorage(given) ==
    [pc |-> "init", given |-> given,
     handlers |-> IF Len(given) = 0 THEN DefaultStoreHandlers ELSE given,
     k |-> 0, calls |-> <<>>, table |-> <<>>, exc |-> "",
     listed |-> FALSE, listing |-> <<>>,
     again |-> [j |-> 0, ok |-> FALSE, exc |-> ""],
     store |-> {}, last |-> [managerCalled |-> FALSE, before |-> {}]]

\* One iteration of `for config in store_handlers` in __init__.
StorageInitStep ==
    /\ sto.pc = "init"
    /\ sto.k < Len(sto.handlers)
    /\ LET r == RegisterStoreHandler(sto.handlers[sto.k + 1])
           entries == [sto.handlers EXCEPT ![sto.k + 1] = r.entry]
       IN IF r.ok
          THEN \E order \in Orders(r.types) :
                  sto' = [sto EXCEPT
                             !.handlers = entries,
                             !.k = @ + 1,
                             !.calls = Append(@, <<r.handler_type, r.config,
                                                   order>>),
                             !.table = ManagerRegister(@, r.handler_type,
                                                       r.config, order)]
          ELSE sto' = [sto EXCEPT !.handlers = entries, !.pc = "failed",
                                  !.exc = r.exc]
    /\ UNCHANGED <<bus, replyQ, wk, dispatched, callers, nextId, mgrVars,
                   origin, nested, rec>>

\* __init__ returns and run_service calls service.run().
StorageRun ==
    /\ sto.pc = "init"
    /\ sto.k = Len(sto.handlers)
    /\ sto' = [sto EXCEPT !.pc = "consuming"]
    /\ UNCHANGED <<bus, replyQ, wk, dispatched, callers, nextId, mgrVars,
                   origin, nested, rec>>

\* register_store_handler is called once more with the entry object of an
\* earlier call.
StorageRegisterAgain ==
    /\ sto.pc = "consuming"
    /\ sto.again.j = 0
    /\ \E j \in 1..Len(sto.handlers) :
          LET r == RegisterStoreHandler(sto.handlers[j])
              entries == [sto.handlers EXCEPT ![j] = r.entry]
              again == [j |-> j, ok |-> r.ok, exc |-> r.exc]
          IN IF r.ok
             THEN \E order \in Orders(r.types) :
                     sto' = [sto EXCEPT
                                !.handlers = entries,
                                !.again = again,
                                !.calls = Append(@, <<r.handler_type, r.config,
                                                      order>>),
                                !.table = ManagerRegister(@, r.handler_type,
                                                          r.config, order)]
             ELSE sto' = [sto EXCEPT !.handlers = entries, !.again = again]
    /\ UNCHANGED <<bus, replyQ, wk, dispatched, callers, nextId, mgrVars,
                   origin, nested, rec>>

\* A storage.list_store_handlers call is dispatched to the handler.
StorageList ==
    /\ sto.pc = "consuming"
    /\ sto' = [sto EXCEPT !.listed = TRUE,
                          !.listing = OnListStoreHandlers(sto.table)]
    /\ UNCHANGED <<bus, replyQ, wk, dispatched, callers, nextId, mgrVars,
                   origin, nested, rec>>

----------------------------------------------------------------------------
(* StorageService: save, get, delete *)

JsonObjectText == "{\"name\": \"a\"}"
JsonTexts == {JsonObjectText, "[1]", "3", "{\"name\"", "nope"}

\* json.loads on the texts above: the value, or JSONDecodeError.
JsonLoads(text) ==
    CASE text = JsonObjectText ->
             [kind |-> "return", value |-> DictBody([name |-> "a"]), error |-> None]
      [] text = "[1]" ->
             [kind |-> "return", value |-> [type |-> "list", value |-> <<1>>],
              error |-> None]
      [] text = "3" ->
             [kind |-> "return", value |-> [type |-> "int", value |-> 3],
              error |-> None]
      [] OTHER -> Raise("JSONDecodeError", "Expecting value")

\* model_json_data as a caller can pass it: a dict or a str.
ModelData ==
    {DictBody([name |-> n]) : n \in {"a", "b"}}
    \cup {[type |-> "str", value |-> [text |-> t]] : t \in JsonTexts}

UnknownModelName == <<"X">>
ModelTypeNames == {<<"N", "o", "d", "e">>, UnknownModelName}

\* model_type.new(**model_json_data)
NewModel(model_type, data) == [type |-> model_type, fields |-> data]

\* instance.to_dict()
ToDict(model) == model.fields

\* _build_model.  JSONDecodeError needs (msg, doc, pos), so the raise of
\* line 124 with one argument ends in a TypeError.
BuildModel(model_type_name, model_json_data) ==
    LET loaded == IF model_json_data.type = "str"
                  THEN JsonLoads(model_json_data.value.text)
                  ELSE [kind |-> "return", value |-> model_json_data,
                        error |-> None]
    IN IF loaded.kind = "raise" THEN loaded
       ELSE IF loaded.value.type # "dict"
       THEN Raise("TypeError", "__init__() missing 2 required positional arguments")
       ELSE IF model_type_name \notin ModelNames
       THEN Raise("KeyError", "model_type_name")
       ELSE [kind |-> "return",
             value |-> NewModel(ModelType(model_type_name), loaded.value.value),
             error |-> None]

\* StoreHandlerManager.save / get / delete: the outcome and the store after.
ManagerSave(store, model) ==
    [out |-> [kind |-> "return", value |-> model, error |-> None],
     store |-> store \cup {model}]

ManagerGet(store, model) ==
    [out |-> IF model \in store
             THEN [kind |-> "return", value |-> model, error |-> None]
             ELSE Raise("KeyError", "not found"),
     store |-> store]

ManagerDelete(store, model) ==
    [out |-> [kind |-> "return", value |-> None, error |-> None],
     store |-> store \ {model}]

\* on_save, on_get, on_delete: what the handler returns or raises, the store
\* after it, and whether the handler manager was called.
StorageHandler(op, store, model_type_name, model_json_data) ==
    LET built == BuildModel(model_type_name, model_json_data)
    IN IF built.kind = "raise"
       THEN [out |-> built, store |-> store, managerCalled |-> FALSE]
       ELSE LET m == CASE op = "save" -> ManagerSave(store, built.value)
                       [] op = "get" -> ManagerGet(store, built.value)
                       [] OTHER -> ManagerDelete(store, built.value)
            IN [out |-> IF m.out.kind = "raise" \/ op = "delete" THEN m.out
                        ELSE [m.out EXCEPT !.value = ToDict(@)],
                store |-> m.store, managerCalled |-> TRUE]

\* The reply queue of the publisher of the storage calls below.
StorageReplyQueue == ResponseQueueName(0)

\* storage.save / get / delete calls as a publisher can send them, with and
\* without an id.
StorageMessages ==
    {[body |-> DictBody([k \in K |->
                  CASE k = "jsonrpc" -> "2.0"
                    [] k = "id" -> 0
                    [] k = "method" -> op
                    [] OTHER -> [model_type_name |-> tn,
                                 model_json_data |-> data]]),
      routing_key |-> <<"storage", op>>,
      reply_to |-> StorageReplyQueue] :
        K \in {{"jsonrpc", "id", "method", "params"},
               {"jsonrpc", "method", "params"}},
        op \in Handlers, tn \in ModelTypeNames, data \in ModelData}

\* A storage call is delivered to the consuming service.
StorageDeliver ==
    /\ sto.pc = "consuming"
    /\ wk.pc = "idle"
    /\ StorageReplyQueue \notin DOMAIN replyQ
    /\ \E m \in StorageMessages : WrapOnMessageEnter(m)
    /\ UNCHANGED <<bus, callers, nextId, mgrVars, nested, sto, rec>>

\* on_save / on_get / on_delete runs and _wrap_on_message finishes.
StorageHandlerDone ==
    /\ wk.pc = "handler"
    /\ LET params == wk.msg.body.value.params
           h == StorageHandler(wk.msg.body.value.method, sto.store,
                               params.model_type_name, params.model_json_data)
       IN /\ sto' = [sto EXCEPT !.store = h.store,
                                !.last = [managerCalled |-> h.managerCalled,
                                          before |-> sto.store]]
          /\ WrapOnMessageFinish(wk.msg, wk.invoked, h.out)
    /\ UNCHANGED <<bus, callers, nextId, mgrVars, nested, rec>>

\* The publisher takes its reply and closes the reply queue.
StorageReplyTaken ==
    /\ StorageReplyQueue \in DOMAIN replyQ
    /\ replyQ' = Close(replyQ, StorageReplyQueue)
    /\ UNCHANGED <<bus, wk, dispatched, origin, callers, nextId, mgrVars,
                   nested, sto, rec>>

----------------------------------------------------------------------------

Init ==
    /\ bus = <<>>
    /\ replyQ = [n \in {} |-> <<>>]
    /\ wk = Idle
    /\ dispatched = [n \in {} |-> ""]
    /\ callers = [c \in Callers \cup Clients |-> IdleCaller]
    /\ nextId = 1
    /\ asyncs = <<>>
    /\ mgr = [pc |-> "launch", x |-> 0, i |-> 0, launches |-> 0,
              replacements |-> 0, startReady |-> {}]
    /\ origin = [n \in {} |-> {}]
    /\ nested = NoNested(0)
    /\ sto = NewStorage(<<>>)
    /\ rec = NewQueue

Next ==
    \/ DeliverRequest
    \/ DeliverExternal
    \/ HandlerDone
    \/ WrapOnMessageReply
    \/ WrapOnMessageReturn
    \/ \E c \in Callers : Request(c)
    \/ \E c \in Callers : RequestReceive(c)
    \/ \E c \in Callers : RequestTimeout(c)

Spec == Init /\ [][Next]_vars

NextManager ==
    \/ RunLaunch
    \/ RunBeginPass
    \/ RunPollStep
    \/ RunEndPass
    \/ TaskCompletes

SpecManager == Init /\ [][NextManager]_vars

NextNested ==
    \/ \E c \in Callers : Request(c)
    \/ \E c \in Callers : RequestReceive(c)
    \/ \E c \in Callers : RequestTimeout(c)
    \/ DeliverRequest
    \/ HandlerDone
    \/ WrapOnMessageReply
    \/ WrapOnMessageReturn
    \/ NestedRequest
    \/ PeerReply
    \/ NestedReceive
    \/ NestedTimeout

SpecNested == Init /\ [][NextNested]_vars

NextClients ==
    \/ \E c \in Clients : Request(c)
    \/ \E c \in Clients : RequestReceive(c)
    \/ \E c \in Clients : RequestTimeout(c)
    \/ DeliverRequest
    \/ HandlerDone
    \/ WrapOnMessageReply
    \/ WrapOnMessageReturn

SpecClients == Init /\ [][NextClients]_vars

InitStorage ==
    /\ bus = <<>>
    /\ replyQ = [n \in {} |-> <<>>]
    /\ wk = Idle
    /\ dispatched = [n \in {} |-> ""]
    /\ callers = [c \in Callers \cup Clients |-> IdleCaller]
    /\ nextId = 1
    /\ asyncs = <<>>
    /\ mgr = [pc |-> "launch", x |-> 0, i |-> 0, launches |-> 0,
              replacements |-> 0, startReady |-> {}]
    /\ origin = [n \in {} |-> {}]
    /\ nested = NoNested(0)
    /\ sto \in {NewStorage(given) : given \in ConfigLists}
    /\ rec = NewQueue

NextStorage ==
    \/ StorageInitStep
    \/ StorageRun
    \/ StorageList

SpecStorage == InitStorage /\ [][NextStorage]_vars

\* Entries for the repeated registration: with and without name and models,
\* with a pattern that matches nothing, and a value that is no object.
AgainEntries ==
    {ConfigEntry({"host", "name"}, "etcd", <<>>),
     ConfigEntry({"host", "name", "models"}, "etcd", << <<"N", "*">> >>),
     ConfigEntry({"host", "name", "models"}, "redis",
                 << <<"?", "e", "t">>, <<"X", "*">> >>),
     ConfigEntry({"name"}, "redis", <<>>),
     ConfigEntry({"host"}, "", <<>>),
     StrBody}

InitStorageAgain ==
    /\ bus = <<>>
    /\ replyQ = [n \in {} |-> <<>>]
    /\ wk = Idle
    /\ dispatched = [n \in {} |-> ""]
    /\ callers = [c \in Callers \cup Clients |-> IdleCaller]
    /\ nextId = 1
    /\ asyncs = <<>>
    /\ mgr = [pc |-> "launch", x |-> 0, i |-> 0, launches |-> 0,
              replacements |-> 0, startReady |-> {}]
    /\ origin = [n \in {} |-> {}]
    /\ nested = NoNested(0)
    /\ sto \in {NewStorage(given) :
                  given \in UNION {[1..n -> AgainEntries] : n \in 0..MaxEntries}}
    /\ rec = NewQueue

NextStorageAgain ==
    \/ StorageInitStep
    \/ StorageRun
    \/ StorageRegisterAgain

SpecStorageAgain == InitStorageAgain /\ [][NextStorageAgain]_vars

NextStorageOps ==
    \/ StorageInitStep
    \/ StorageRun
    \/ StorageDeliver
    \/ StorageHandlerDone
    \/ WrapOnMessageReply
    \/ WrapOnMessageReturn
    \/ StorageReplyTaken

SpecStorageOps == Init /\ [][NextStorageOps]_vars

----------------------------------------------------------------------------
(* Properties *)

\* The message was treated as a jsonrpc call (the if at lines 207-210 held).
TreatedAsRpc(m) == Len(RSplit1(m.routing_key)) = 2 /\ IsRpcCall(m)

Finished == wk.pc \in {"done", "crashed"}

ReplyQueueOf(c) == ResponseQueueName(callers[c].id)

\* C1: every response a caller of request() receives carries an `id` equal
\* to the id of its request, on success and on error.
C1_ResponseIdMatches ==
    \A c \in Callers :
        callers[c].pc = "returned" =>
            /\ "id" \in DOMAIN callers[c].payload
            /\ callers[c].payload.id = callers[c].id

\* C2: dispatching an RPC call whose method has no on_<method> handler
\* always ends with an error result of code -32601, and no handler is
\* invoked for it.
C2_UnimplementedYields32601 ==
    (Finished /\ TreatedAsRpc(wk.msg) /\ wk.msg.body.value.method \notin Handlers)
        => /\ wk.outcome = "error"
           /\ wk.result.error.code = -32601
           /\ wk.invoked = 0

\* C3: when the handler exists and invoking it raises, whatever the
\* exception type, the error result has code -32600 and the exception's
\* text as message; -32601 is produced only when no handler exists.
C3_HandlerFaultYields32600 ==
    (wk.pc = "done" /\ wk.outcome = "error")
        => /\ wk.invoked = 1 =>
                /\ wk.result.error.code = -32600
                /\ wk.result.error.message = wk.caught.text
           /\ wk.result.error.code = -32601 =>
                wk.msg.body.value.method \notin Handlers

\* C4: a message treated as an RPC call is acknowledged exactly once by
\* _wrap_on_message, never before or while the handler runs.
C4_AckedOnceAfterHandler ==
    /\ wk.pc = "handler" => wk.acks = 0
    /\ (Finished /\ TreatedAsRpc(wk.msg)) => wk.acks = 1

\* C5: no delivered message makes _wrap_on_message raise into the consume
\* loop.
C5_NeverRaisesIntoLoop == wk.pc # "crashed"

\* C6: after request() failed with the timeout, its reply queue
\* response-<id> no longer exists.
C6_TimeoutTearsDownQueue ==
    \A c \in Callers :
        callers[c].pc = "raised" => ReplyQueueOf(c) \notin DOMAIN replyQ

\* C7: the payload request() returns has an `error` key at its top level
\* when the remote dispatch failed, and a `result` key and no `error` key
\* when it succeeded.
C7_ErrorKeyTellsFailure ==
    \A c \in Callers :
        callers[c].pc = "returned" =>
            /\ dispatched[ReplyQueueOf(c)] = "error" =>
                  "error" \in DOMAIN callers[c].payload
            /\ dispatched[ReplyQueueOf(c)] = "success" =>
                  /\ "result" \in DOMAIN callers[c].payload
                  /\ "error" \notin DOMAIN callers[c].payload

\* C8: whenever a reply is on the reply queue of a waiting request(), the
\* call's next step acknowledges the reply, closes the reply queue and
\* returns that payload; it does not raise, whatever the payload holds.
C8_ReplyReturnedNotRaised ==
    [][\A c \in Callers :
          (/\ callers[c].pc = "waiting"
           /\ ReplyQueueOf(c) \in DOMAIN replyQ
           /\ replyQ[ReplyQueueOf(c)] # <<>>
           /\ callers'[c] # callers[c])
          => /\ callers'[c].pc = "returned"
             /\ callers'[c].acked
             /\ callers'[c].payload = Head(replyQ[ReplyQueueOf(c)])
             /\ ReplyQueueOf(c) \notin DOMAIN replyQ']_vars

\* A caller has been handed a reply that embeds an error.
C8_Witness ==
    \E c \in Callers :
        /\ callers[c].pc = "returned"
        /\ callers[c].acked
        /\ "error" \in DOMAIN callers[c].payload.result

\* C9: once the initial launch is done, the tracked list holds exactly
\* process_count entries at the end of every poll pass, and the number of
\* launches is process_count plus the number of replacements.
C9_PoolSizeMaintained ==
    /\ mgr.pc = "sleep" => Len(asyncs) = ProcessCount
    /\ mgr.pc # "launch" => mgr.launches = ProcessCount + mgr.replacements

\* A pass ended after several workers were replaced.
C9_Witness ==
    /\ mgr.pc = "sleep"
    /\ mgr.replacements >= 2
    /\ Len(asyncs) = ProcessCount

\* C10: no task that was complete when a poll pass started is still
\* tracked when that pass ends.
C10_CompletedReplacedSamePass ==
    mgr.pc = "sleep" =>
        \A k \in 1..Len(asyncs) : asyncs[k].id \notin mgr.startReady

\* One step of ServiceManager.run itself.
RunStep == RunLaunch \/ RunBeginPass \/ RunPollStep \/ RunEndPass

\* C11: a poll pass removes only tasks that report complete: every task
\* that is not complete stays tracked, and unchanged by the supervisor's own
\* steps; and ServiceManager.run always has a next step (no terminal state).
C11_OnlyCompletedReplaced ==
    /\ [][\A k \in 1..Len(asyncs) :
            ~asyncs[k].ready =>
                \E j \in 1..Len(asyncs') :
                    /\ asyncs'[j].id = asyncs[k].id
                    /\ mgr' # mgr => asyncs'[j] = asyncs[k]]_vars
    /\ [](ENABLED RunStep)

\* A worker of the initial launch is still running after another one was
\* replaced.
C11_Witness ==
    /\ mgr.replacements >= 1
    /\ \E k \in 1..Len(asyncs) : ~asyncs[k].ready /\ asyncs[k].id <= ProcessCount

----------------------------------------------------------------------------
(* StorageService registration *)

\* The handler list __init__ iterates, as configured.
Configured ==
    IF Len(sto.given) = 0 THEN DefaultStoreHandlers ELSE sto.given

Range(f) == {f[i] : i \in DOMAIN f}

NoMatch(entry) ==
    \E p \in Range(PopModels(entry.value)) : FnmatchFilter(ModelNames, p) = {}

Named(entry) == entry.type = "dict" /\ "name" \in DOMAIN entry.value

\* C12: an entry with models patterns is registered with exactly the catalog
\* types whose names match at least one of its patterns, each type once
\* (without models: the whole catalog); an entry with a pattern that matches
\* no catalog name is never registered and ends construction with a
\* ConfigurationError.
C12_RegistersUnionOfMatches ==
    \A j \in 1..Len(Configured) :
        Named(Configured[j]) =>
            LET pats == PopModels(Configured[j].value)
            IN /\ j <= Len(sto.calls) =>
                    /\ Range(sto.calls[j][3]) =
                           {ModelType(n) : n \in
                               {m \in ModelNames :
                                   \E p \in Range(pats) : Fnmatch(m, p)}}
                    /\ Len(sto.calls[j][3]) =
                           Cardinality(Range(sto.calls[j][3]))
                    /\ "models" \notin DOMAIN Configured[j].value =>
                           Range(sto.calls[j][3]) =
                               {ModelType(n) : n \in ModelNames}
               /\ NoMatch(Configured[j]) =>
                    /\ j > Len(sto.calls)
                    /\ sto.k = j - 1 /\ sto.pc # "init" =>
                           sto.pc = "failed" /\ sto.exc = "ConfigurationError"

C12_Witness ==
    /\ Len(sto.calls) = 2
    /\ "models" \in DOMAIN Configured[1].value
    /\ Len(Configured[1].value.models) = 2
    /\ Cardinality(Range(sto.calls[1][3])) = 2
    /\ Cardinality(FnmatchFilter(ModelNames, Configured[1].value.models[1])) = 1
    /\ "models" \notin DOMAIN Configured[2].value

BadEntry(entry) == ~Named(entry) \/ NoMatch(entry)

\* C13: when an entry of the configured list is no keyed object, has no name
\* or has a pattern without a match, the constructor never gets past that
\* entry: it ends with a ConfigurationError and the service never consumes.
C13_BadEntryFailsConstruction ==
    /\ \A j \in 1..sto.k : ~BadEntry(Configured[j])
    /\ (\E j \in 1..Len(Configured) : BadEntry(Configured[j])) =>
           sto.pc \in {"init", "failed"}
    /\ sto.pc = "failed" =>
           /\ sto.exc = "ConfigurationError"
           /\ BadEntry(Configured[sto.k + 1])

C13_Witness ==
    /\ sto.pc = "failed"
    /\ sto.k = 1
    /\ Named(Configured[2])
    /\ NoMatch(Configured[2])

\* C14: the n-th registration of the handler manager is the n-th configured
\* entry, overlapping entries are both kept, and on_list_store_handlers
\* returns one item per registration in that order.
C14_RegisteredInConfiguredOrder ==
    /\ Len(sto.table) = sto.k
    /\ \A j \in 1..Len(sto.table) :
           /\ sto.table[j][1] = ImportPlugin(Configured[j].value.name)
           /\ sto.table[j][2] =
                  DictPop(DictPop(Configured[j].value, "name"), "models")
           /\ Range(sto.table[j][3]) =
                  MatchPatterns(PopModels(Configured[j].value), {}).types
    /\ sto.listed =>
           /\ Len(sto.listing) = Len(Configured)
           /\ \A j \in 1..Len(sto.listing) :
                  /\ sto.listing[j].handler_type = Configured[j].value.name
                  /\ sto.listing[j].config = sto.table[j][2]
                  /\ Range(sto.listing[j].model_types) =
                         {TypeName(t) : t \in Range(sto.table[j][3])}

C14_Witness ==
    /\ sto.listed
    /\ Len(sto.listing) = 2
    /\ sto.listing[1].handler_type = "redis"
    /\ sto.listing[2].handler_type = "etcd"
    /\ Range(sto.table[1][3]) \cap Range(sto.table[2][3]) # {}
    /\ Range(sto.table[1][3]) # Range(sto.table[2][3])

\* C15: each model_types list of on_list_store_handlers holds exactly the
\* names of the types of its registration, each once, in ascending code
\* point order, whatever the order the types were registered in.
C15_ModelTypesSorted ==
    sto.listed =>
        \A j \in 1..Len(sto.listing) :
            LET names == sto.listing[j].model_types
            IN /\ Range(names) = {TypeName(t) : t \in Range(sto.table[j][3])}
               /\ Len(names) = Len(sto.table[j][3])
               /\ \A a, b \in 1..Len(names) :
                      a < b => StrLess(names[a], names[b])

C15_Witness ==
    /\ sto.listed
    /\ Len(sto.table) >= 1
    /\ Len(sto.table[1][3]) = 3
    /\ TypeName(sto.table[1][3][1]) = <<"N", "o", "d", "e">>
    /\ TypeName(sto.table[1][3][3]) = <<"C", "l", "u">>
    /\ sto.listing[1].model_types[1] = <<"C", "l", "u">>
    /\ sto.listing[1].model_types[3] = <<"N", "o", "d", "e">>

BadModelInput(params) ==
    \/ params.model_type_name \notin ModelNames
    \/ /\ params.model_json_data.type = "str"
       /\ LET loaded == JsonLoads(params.model_json_data.value.text)
          IN loaded.kind = "raise" \/ loaded.value.type # "dict"

\* C20: a save, get or delete call with an unknown model type name, a string
\* that is no valid JSON or a string whose JSON value is no object fails
\* before the handler manager is called, leaves the store as it was, and is
\* answered on the reply queue with an error result.
C20_BadInputFailsBeforeManager ==
    /\ Finished
    /\ wk.invoked = 1
    /\ wk.msg.body.value.method \in Handlers
    /\ BadModelInput(wk.msg.body.value.params)
    => /\ ~sto.last.managerCalled
       /\ sto.store = sto.last.before
       /\ wk.pc = "done"
       /\ "error" \in DOMAIN wk.result
       /\ dispatched[wk.msg.reply_to] = "error"

----------------------------------------------------------------------------
(* Messages that are no RPC call *)

NotAnRpcCall(m) ==
    \/ m.body.type # "dict"
    \/ "method" \notin DOMAIN m.body.value
    \/ m.body.value.method # FinalSegment(m.routing_key)

\* C16: a message whose body is no keyed mapping, has no method, or has a
\* method other than the last segment of its routing key goes to on_message
\* and to no on_<method> handler, and is acknowledged exactly once.
C16_OtherMessagesToOnMessage ==
    Finished /\ NotAnRpcCall(wk.msg) =>
        /\ wk.pc = "done"
        /\ wk.outcome = "on_message"
        /\ wk.invoked = 0
        /\ wk.acks = 1

----------------------------------------------------------------------------
(* Requests issued by handlers *)

\* C17: a worker dispatches one message at a time: a dispatch starts only
\* when the callback is free, and while a handler runs, its request()
\* waiting for the reply or the timeout included, the worker stays on the
\* same message and takes none from its queue.
C17_DispatchNonPreemptive ==
    [][/\ wk'.msg # wk.msg /\ wk'.pc # "idle" =>
            wk.pc = "idle" /\ nested.pc = "idle"
       /\ wk.pc = "handler" =>
            /\ wk'.msg = wk.msg
            /\ Len(bus') >= Len(bus)
            /\ SubSeq(bus', 1, Len(bus)) = bus
       /\ nested.pc = "waiting" =>
            wk'.pc = "handler" /\ nested'.pc # "idle"]_vars

C17_Witness ==
    /\ wk.pc = "handler"
    /\ nested.pc \in {"returned", "raised"}
    /\ Len(bus) >= 1
    /\ Head(bus).body.value.id # wk.msg.body.value.id

----------------------------------------------------------------------------
(* Several requests outstanding *)

Outstanding(c) == callers[c].pc # "idle"

RequestsOf(id) ==
    {bus[k] : k \in {i \in 1..Len(bus) : bus[i].body.value.id = id}}
    \cup (IF wk.pc # "idle" /\ wk.msg.body.value.id = id THEN {wk.msg} ELSE {})

\* C19: requests outstanding at the same time have different ids, each is
\* published with reply_to naming the queue response-<id> of its own id, and
\* the replies put on a caller's reply queue were all produced for that
\* caller's request.
C19_RepliesReachTheirCaller ==
    \A c \in Clients :
        Outstanding(c) =>
            /\ \A o \in Clients \ {c} :
                   Outstanding(o) =>
                       /\ callers[o].id # callers[c].id
                       /\ ReplyQueueOf(o) # ReplyQueueOf(c)
            /\ \A m \in RequestsOf(callers[c].id) :
                   m.reply_to = [prefix |-> "response", id |-> callers[c].id]
            /\ Origins(origin, ReplyQueueOf(c)) \subseteq {callers[c].id}

C19_Witness ==
    \E c, o \in Clients :
        /\ c # o
        /\ callers[c].pc = "waiting"
        /\ callers[o].pc = "waiting"
        /\ Origins(origin, ReplyQueueOf(c)) = {callers[c].id}
        /\ Origins(origin, ReplyQueueOf(o)) = {callers[o].id}

----------------------------------------------------------------------------
(* Redelivery after a worker's death *)

NextRecovery ==
    \/ RunLaunch
    \/ RunBeginPass
    \/ RunPollStep
    \/ RunEndPass
    \/ Publish
    \/ \E t \in TaskIds : WorkerReceive(t)
    \/ \E t \in TaskIds : WorkerFinish(t)
    \/ \E t \in TaskIds : WorkerDies(t)

\* The supervisor's loop keeps running, live workers keep consuming, and a
\* dispatch under way finishes unless its worker dies; deaths are not fair
\* and there are at most MaxCompletions of them.
SpecRecovery ==
    /\ Init
    /\ [][NextRecovery]_vars
    /\ WF_vars(RunStep)
    /\ WF_vars(\E t \in TaskIds : WorkerReceive(t))
    /\ WF_vars(\E t \in TaskIds : WorkerFinish(t))

Held(m) == \E t \in TaskIds : Alive(t) /\ rec.inflight[t] = m

Queued(m) == \E i \in 1..Len(rec.queue) : rec.queue[i] = m

----------------------------------------------------------------------------
(* Effects of register_store_handler on the entry *)

\* C21: the configuration handed to the handler manager is the entry's
\* without name and models and with every other key as it was; the entry
\* object has neither key afterwards; and a second registration of the same
\* entry object fails with a ConfigurationError, its name being gone.
C21_NameAndModelsConsumed ==
    /\ \A j \in 1..sto.k :
           LET before == Configured[j].value
               config == sto.calls[j][2]
               after == sto.handlers[j]
           IN /\ DOMAIN config = DOMAIN before \ {"name", "models"}
              /\ \A key \in DOMAIN config : config[key] = before[key]
              /\ after.type = "dict"
              /\ after.value = config
              /\ "name" \notin DOMAIN after.value
              /\ "models" \notin DOMAIN after.value
    /\ sto.again.j # 0 =>
           /\ ~sto.again.ok
           /\ sto.again.exc = "ConfigurationError"
           /\ "name" \notin DOMAIN sto.handlers[sto.again.j].value
           /\ Len(sto.calls) = sto.k

C21_Witness ==
    /\ sto.again.j = 2
    /\ "name" \in DOMAIN Configured[2].value
    /\ "models" \in DOMAIN Configured[2].value
    /\ "host" \in DOMAIN sto.calls[2][2]
    /\ Len(sto.calls) = 2

\* C22: the handler manager is called once for each entry that passed, with
\* that entry's data, and never for an entry that is no keyed object, has no
\* name or has a pattern without a match; a failing entry leaves the calls
\* made and the table as they were.
C22_EntryAllOrNothing ==
    /\ [](/\ Len(sto.calls) = sto.k
          /\ \A j \in 1..Len(sto.calls) :
                 /\ ~BadEntry(Configured[j])
                 /\ Range(sto.calls[j][3]) =
                        MatchPatterns(PopModels(Configured[j].value), {}).types
          /\ sto.pc = "failed" =>
                 /\ BadEntry(Configured[sto.k + 1])
                 /\ Len(sto.table) = sto.k)
    /\ [][/\ Len(sto'.calls) <= Len(sto.calls) + 1
          /\ SubSeq(sto'.calls, 1, Len(sto.calls)) = sto.calls
          /\ SubSeq(sto'.table, 1, Len(sto.table)) = sto.table
          /\ sto'.pc = "failed" =>
                 sto'.calls = sto.calls /\ sto'.table = sto.table]_vars

C22_Witness ==
    /\ sto.pc = "failed"
    /\ sto.k = 1
    /\ Len(sto.table) = 1
    /\ Named(Configured[2])
    /\ "models" \in DOMAIN Configured[2].value
    /\ Len(Configured[2].value.models) = 2
    /\ FnmatchFilter(ModelNames, Configured[2].value.models[1]) # {}
    /\ FnmatchFilter(ModelNames, Configured[2].value.models[2]) = {}

----------------------------------------------------------------------------
(* Replies *)

QueueLen(q, name) == IF name \in DOMAIN q THEN Len(q[name]) ELSE 0

\* C23: a payload is put on a reply queue only by a delivery that was
\* dispatched as an RPC call, names that queue as its reply_to and has been
\* acknowledged, one payload per delivery; while a delivery with a reply_to
\* is not acknowledged, its reply queue holds nothing.
C23_ReplyOnlyAfterAck ==
    /\ [][\A name \in DOMAIN replyQ' :
            QueueLen(replyQ', name) > QueueLen(replyQ, name) =>
                /\ wk.pc = "acked"
                /\ wk.acks = 1
                /\ TreatedAsRpc(wk.msg)
                /\ wk.msg.reply_to = name
                /\ name # NoReplyTo
                /\ QueueLen(replyQ', name) = QueueLen(replyQ, name) + 1
                /\ wk'.pc = "done"]_vars
    /\ [](wk.pc # "idle" /\ wk.acks = 0 =>
             QueueLen(replyQ, wk.msg.reply_to) = 0)

C23_Witness ==
    /\ wk.pc = "done"
    /\ wk.acks = 1
    /\ wk.outcome = "error"
    /\ QueueLen(replyQ, wk.msg.reply_to) = 1

----------------------------------------------------------------------------
(* Requests whose method is not the last segment of the routing key *)

Mismatched(c) ==
    /\ callers[c].pc # "idle"
    /\ callers[c].method # FinalSegment(callers[c].routing_key)

DeliveryOf(c) ==
    /\ wk.pc # "idle"
    /\ wk.msg.body.type = "dict"
    /\ "id" \in DOMAIN wk.msg.body.value
    /\ wk.msg.body.value.id = callers[c].id

\* C24: a request whose method differs from the last segment of its routing
\* key is handed to on_message by the service that receives it, nothing is
\* ever put on its reply queue, and the call never returns a payload: it
\* waits or has ended in the timeout.
C24_MismatchedMethodTimesOut ==
    \A c \in Callers :
        Mismatched(c) =>
            /\ callers[c].pc \in {"waiting", "raised"}
            /\ QueueLen(replyQ, ReplyQueueOf(c)) = 0
            /\ DeliveryOf(c) /\ Finished =>
                   wk.pc = "done" /\ wk.outcome = "on_message"

----------------------------------------------------------------------------
(* A handler's request on a routing key of its own worker *)

\* The running handler has called request() on a routing key that is bound
\* to this worker's queue.
RequestedSelf == nested.pc # "idle" /\ Routed(nested.routing_key)

OnBus(id) == \E i \in 1..Len(bus) : bus[i].body.value.id = id

\* C25: while the handler that sent it runs, a request on a routing key of
\* its own worker stays undelivered in the queue and its reply queue stays
\* empty; the only way the request() call ends is the timeout, which is
\* always open to it; so a reply made later finds nobody waiting.
C25_SelfRequestTimesOut ==
    /\ [](RequestedSelf =>
             /\ nested.pc \in {"waiting", "raised"}
             /\ OnBus(nested.id)
             /\ QueueLen(replyQ, ResponseQueueName(nested.id)) = 0
             /\ nested.pc = "waiting" => ENABLED NestedTimeout)
    /\ [][/\ RequestedSelf /\ nested.pc = "waiting" /\ nested' # nested =>
                nested'.pc = "raised"
          /\ \A name \in DOMAIN replyQ' :
                 QueueLen(replyQ', name) > QueueLen(replyQ, name) =>
                     ~(nested.pc = "waiting" /\ Routed(nested.routing_key)
                       /\ name = ResponseQueueName(nested.id))]_vars

C25_Witness ==
    /\ nested.pc = "idle"
    /\ wk.pc = "done"
    /\ nested.issued >= 1
    /\ \A c \in Callers : callers[c].id # wk.msg.body.value.id
    /\ QueueLen(replyQ, wk.msg.reply_to) = 1

====
